---- MODULE Spec2Model ----
(***************************************************************************)
(* Optimize1qGatesDecomposition (qiskit transpiler pass): the constructor's *)
(* selection of Euler bases and run()'s rewriting of single-qubit runs.     *)
(* Angles are counted in units of pi/2; matrices are single-qubit Clifford  *)
(* matrices with entries 0 or powers of w = exp(i*pi/4), times 1 or         *)
(* 1/sqrt(2).                                                               *)
(***************************************************************************)
EXTENDS Integers, Sequences, FiniteSets, TLC

VARIABLES pc, basis_arg, table, ei, basis, dag, runs, ri, dag_in, prev, calls

vars == <<pc, basis_arg, table, ei, basis, dag, runs, ri, dag_in, prev, calls>>

\* ------------------------------------------------------------------ bounds
\* Number of entries of an arbitrary Euler table (SpecSel).
MaxBases == 3
\* Number of operations of the circuit handed to run().
MaxOps == 3
\* Number of successive invocations of run() on the same graph.
MaxCalls == 2

\* ------------------------------------------------------- basis selection
\* Python's None for a list-valued attribute or argument; Some(l) is the list l.
None == [none |-> TRUE, list |-> <<>>]
Some(l) == [none |-> FALSE, list |-> l]

\* Truth value of a list-or-None (None and the empty list are falsy).
Truthy(x) == ~x.none /\ x.list # <<>>

\* set(l)
ToSet(l) == { l[i] : i \in 1..Len(l) }

\* Gate names the arbitrary tables of SpecSel are built from.
SelGates == {"u1", "u2", "u3"}

EulerNames == <<"E1", "E2", "E3", "E4", "E5", "E6">>

\* euler_basis_gates[name]: the gate list of the table entry called name.
GatesOf(tbl, name) ==
    LET i == CHOOSE k \in 1..Len(tbl) : tbl[k].name = name IN tbl[i].gates

\* list.remove(x): drops the first element equal to x.
ListRemove(l, x) ==
    LET i == CHOOSE k \in 1..Len(l) : l[k] = x /\ \A j \in 1..(k-1) : l[j] # x
    IN  SubSeq(l, 1, i-1) \o SubSeq(l, i+1, Len(l))

\* InnerLoop with the two subset tests in the other order: an equal gate-set
\* breaks instead of removing.
RECURSIVE InnerLoopBreakFirst(_, _, _, _, _)
InnerLoopBreakFirst(tbl, gates, basis_copy, j, cur) ==
    IF j > Len(basis_copy) THEN [list |-> cur, broke |-> FALSE]
    ELSE LET base == basis_copy[j] IN
         IF gates \subseteq GatesOf(tbl, base.basis)
         THEN [list |-> cur, broke |-> TRUE]
         ELSE IF GatesOf(tbl, base.basis) \subseteq gates
              THEN InnerLoopBreakFirst(tbl, gates, basis_copy, j+1, ListRemove(cur, base))
              ELSE InnerLoopBreakFirst(tbl, gates, basis_copy, j+1, cur)

\* InnerLoop with the subset tests turned round: it removes the supersets of
\* the new basis and breaks on its subsets.
RECURSIVE InnerLoopWrongWay(_, _, _, _, _)
InnerLoopWrongWay(tbl, gates, basis_copy, j, cur) ==
    IF j > Len(basis_copy) THEN [list |-> cur, broke |-> FALSE]
    ELSE LET base == basis_copy[j] IN
         IF gates \subseteq GatesOf(tbl, base.basis)
         THEN InnerLoopWrongWay(tbl, gates, basis_copy, j+1, ListRemove(cur, base))
         ELSE IF GatesOf(tbl, base.basis) \subseteq gates
              THEN [list |-> cur, broke |-> TRUE]
              ELSE InnerLoopWrongWay(tbl, gates, basis_copy, j+1, cur)

\* The for/else over basis_copy (lines 49-56): cur is self.basis as mutated so
\* far; broke tells whether the loop left through break.
RECURSIVE InnerLoop(_, _, _, _, _)
InnerLoop(tbl, gates, basis_copy, j, cur) ==
    IF j > Len(basis_copy) THEN [list |-> cur, broke |-> FALSE]
    ELSE LET base == basis_copy[j] IN
         IF GatesOf(tbl, base.basis) \subseteq gates
         THEN InnerLoop(tbl, gates, basis_copy, j+1, ListRemove(cur, base))
         ELSE IF gates \subseteq GatesOf(tbl, base.basis)
              THEN [list |-> cur, broke |-> TRUE]
              ELSE InnerLoop(tbl, gates, basis_copy, j+1, cur)

\* SelectOne with the append outside the for/else: a break no longer skips it.
SelectOneNoElse(tbl, basis_set, entry, cur) ==
    IF entry.gates \subseteq basis_set
    THEN Append(InnerLoop(tbl, entry.gates, cur, 1, cur).list, [basis |-> entry.name])
    ELSE cur

\* One iteration of the loop over the Euler table (lines 46-60).
SelectOne(tbl, basis_set, entry, cur) ==
    IF entry.gates \subseteq basis_set
    THEN LET r == InnerLoop(tbl, entry.gates, cur, 1, cur) IN
         IF r.broke THEN r.list
         ELSE Append(r.list, [basis |-> entry.name])
    ELSE cur

\* ------------------------------------------------------------- matrices
\* An entry is -1 (the number 0) or k in 0..7 (the number w^k, w = exp(i*pi/4)).
\* A matrix is [s, e]: e = <<m00, m01, m10, m11>> and the factor is 1 (s = 0)
\* or 1/sqrt(2) (s = 1).
EMul(x, y) == IF x < 0 \/ y < 0 THEN -1 ELSE (x + y) % 8

ENeg(x) == EMul(x, 4)

\* (x + y) / 2 for two non-zero entries, as <<entry, s>>: w^a + w^a = 2 w^a,
\* w^a + w^(a+4) = 0, w^a + w^(a+2) = sqrt(2) w^(a+1).
EHalfSum(x, y) ==
    LET d == (y - x + 8) % 8 IN
    IF d = 0 THEN <<x, 0>>
    ELSE IF d = 4 THEN <<-1, 0>>
    ELSE IF d = 2 THEN <<(x + 1) % 8, 1>>
    ELSE <<(x + 7) % 8, 1>>

\* x + y where at most one of the two is non-zero.
EPick(x, y) == IF x < 0 THEN y ELSE x

\* The matrix product a.b
MatMul(a, b) ==
    LET t(i, j, k) == EMul(a.e[2*i + k + 1], b.e[2*k + j + 1]) IN
    IF a.s + b.s <= 1
    THEN [s |-> a.s + b.s,
          e |-> <<EPick(t(0,0,0), t(0,0,1)), EPick(t(0,1,0), t(0,1,1)),
                  EPick(t(1,0,0), t(1,0,1)), EPick(t(1,1,0), t(1,1,1))>>]
    ELSE LET h(i, j) == EHalfSum(t(i,j,0), t(i,j,1)) IN
         [s |-> h(0,0)[2],
          e |-> <<h(0,0)[1], h(0,1)[1], h(1,0)[1], h(1,1)[1]>>]

\* np.eye(2)
identity_matrix == [s |-> 0, e |-> <<0, -1, -1, 0>>]

\* The matrix with its global phase divided out (first non-zero entry 1).
Canon(m) ==
    LET k == IF m.e[1] >= 0 THEN m.e[1] ELSE m.e[2] IN
    [s |-> m.s, e |-> [i \in 1..4 |-> EMul(m.e[i], (8 - k) % 8)]]

EqUpToPhase(a, b) == Canon(a) = Canon(b)

\* cos and sin of k*pi/4 without the factor 1/sqrt(2) of odd k.
CosE(k) == <<0, 0, -1, 4, 4, 4, -1, 0>>[(k % 8) + 1]
SinE(k) == <<-1, 0, 0, 0, -1, 4, 4, 4>>[(k % 8) + 1]

\* Gate.to_matrix() of the standard gates; angles in units of pi/2.
U3Matrix(theta, phi, lam) ==
    [s |-> theta % 2,
     e |-> <<CosE(theta),
             EMul(ENeg(SinE(theta)), (2 * lam) % 8),
             EMul(SinE(theta), (2 * phi) % 8),
             EMul(CosE(theta), (2 * (phi + lam)) % 8)>>]

ToMatrix(op) ==
    CASE op.name = "u3" -> U3Matrix(op.params[1], op.params[2], op.params[3])
      [] op.name = "u2" -> U3Matrix(1, op.params[1], op.params[2])
      [] op.name = "u1" -> U3Matrix(0, 0, op.params[1])
      [] op.name = "rz" ->
            [s |-> 0, e |-> <<(8 - (op.params[1] % 8)) % 8, -1, -1, op.params[1] % 8>>]
      [] op.name = "ry" ->
            [s |-> op.params[1] % 2,
             e |-> <<CosE(op.params[1]), ENeg(SinE(op.params[1])),
                     SinE(op.params[1]), CosE(op.params[1])>>]
      [] op.name = "rx" ->
            [s |-> op.params[1] % 2,
             e |-> <<CosE(op.params[1]), EMul(SinE(op.params[1]), 6),
                     EMul(SinE(op.params[1]), 6), CosE(op.params[1])>>]
      [] op.name = "id" -> identity_matrix

\* Operator.compose(gate): the operator followed by the gate.
Compose(operator, op) == MatMul(ToMatrix(op), operator)

\* The unitary of a sequence of operations applied in order.
RECURSIVE CircuitMatrix(_)
CircuitMatrix(ops) ==
    IF ops = <<>> THEN identity_matrix
    ELSE Compose(CircuitMatrix(SubSeq(ops, 1, Len(ops) - 1)), ops[Len(ops)])

Gate(n, p) == [name |-> n, params |-> p]

\* ------------------------------------------------------------ decomposers
\* one_qubit_decompose.ONE_QUBIT_EULER_BASIS_GATES, in its enumeration order.
ONE_QUBIT_EULER_BASIS_GATES ==
    << [name |-> "U3",   gates |-> {"u3"}],
       [name |-> "U321", gates |-> {"u3", "u2", "u1"}],
       [name |-> "ZYZ",  gates |-> {"rz", "ry"}],
       [name |-> "ZXZ",  gates |-> {"rz", "rx"}],
       [name |-> "XYX",  gates |-> {"rx", "ry"}] >>

\* Non-zero rotation angles that differ up to global phase.
Angles == 1..3

\* The circuits of the Euler form K.A.K with its zero-angle rotations dropped.
KAK(k, a) ==
    {<<>>}
    \cup { <<Gate(k, <<x>>)>> : x \in Angles }
    \cup { <<Gate(a, <<x>>)>> : x \in Angles }
    \cup { <<Gate(k, <<x>>), Gate(a, <<y>>)>> : x \in Angles, y \in Angles }
    \cup { <<Gate(a, <<x>>), Gate(k, <<y>>)>> : x \in Angles, y \in Angles }
    \cup { <<Gate(k, <<x>>), Gate(a, <<y>>), Gate(k, <<z>>)>> :
             x \in Angles, y \in Angles, z \in Angles }

\* The circuits a decomposer of the named basis may return.
BasisCircuits(name) ==
    CASE name = "U3" ->
            {<<>>} \cup { <<Gate("u3", <<t, p, l>>)>> : t \in 0..2, p \in 0..3, l \in 0..3 }
      [] name = "U321" ->
            {<<>>} \cup { <<Gate("u1", <<l>>)>> : l \in Angles }
                   \cup { <<Gate("u2", <<p, l>>)>> : p \in 0..3, l \in 0..3 }
                   \cup { <<Gate("u3", <<2, p, l>>)>> : p \in 0..3, l \in 0..3 }
      [] name = "ZYZ" -> KAK("rz", "ry")
      [] name = "ZXZ" -> KAK("rz", "rx")
      [] name = "XYX" -> KAK("rx", "ry")

\* The 24 single-qubit Clifford matrices up to global phase.
Classes == { Canon(U3Matrix(t, p, l)) : t \in 0..2, p \in 0..3, l \in 0..3 }

\* OneQubitEulerDecomposer(name)(operator): a fixed circuit of the basis that
\* equals the operator up to global phase and has the fewest operations.
DecomposerTable ==
    [name \in {"U3", "U321", "ZYZ", "ZXZ", "XYX"} |->
        [m \in Classes |->
            LET ok == { c \in BasisCircuits(name) : Canon(CircuitMatrix(c)) = m }
            IN  CHOOSE c \in ok : \A c2 \in ok : Len(c) <= Len(c2)]]

Decompose(name, operator) == DecomposerTable[name][Canon(operator)]

\* ------------------------------------------------------------------ graph
\* A graph: nodes maps a node id to its operation [name, params, qargs],
\* wires[q] lists the ids of the operations on qubit q in order, next is the
\* id the next new node gets.
Qubits == 1..2

FilterOut(w, n) == SelectSeq(w, LAMBDA x : x # n)

\* DAGCircuit.remove_op_node
remove_op_node(d, n) ==
    [nodes |-> [i \in (DOMAIN d.nodes) \ {n} |-> d.nodes[i]],
     wires |-> [q \in Qubits |-> FilterOut(d.wires[q], n)],
     next  |-> d.next]

\* Position of node n on wire w.
IndexOf(w, n) == CHOOSE i \in 1..Len(w) : w[i] = n

\* DAGCircuit.substitute_node_with_dag for a single-qubit node n and a
\* one-qubit circuit: the circuit's operations take n's place on its wire.
substitute_node_with_dag(d, n, circ) ==
    LET q   == d.nodes[n].qargs[1]
        w   == d.wires[q]
        i   == IndexOf(w, n)
        new == [k \in 1..Len(circ) |-> d.next + k - 1]
        ids == ((DOMAIN d.nodes) \ {n}) \cup { new[k] : k \in 1..Len(circ) }
    IN  [nodes |-> [j \in ids |->
                      IF j >= d.next
                      THEN [name |-> circ[j - d.next + 1].name,
                            params |-> circ[j - d.next + 1].params,
                            qargs |-> <<q>>]
                      ELSE d.nodes[j]],
         wires |-> [r \in Qubits |->
                      IF r = q THEN SubSeq(w, 1, i-1) \o new \o SubSeq(w, i+1, Len(w))
                      ELSE d.wires[r]],
         next  |-> d.next + Len(circ)]

\* Whether node n is a single-qubit gate of a run.
Is1q(d, n) == Len(d.nodes[n].qargs) = 1

\* The maximal runs of single-qubit gates on wire w, in order.
RECURSIVE RunsOnWire(_, _, _, _)
RunsOnWire(d, w, i, cur) ==
    IF i > Len(w) THEN (IF cur = <<>> THEN <<>> ELSE <<cur>>)
    ELSE IF Is1q(d, w[i]) THEN RunsOnWire(d, w, i+1, Append(cur, w[i]))
    ELSE (IF cur = <<>> THEN <<>> ELSE <<cur>>) \o RunsOnWire(d, w, i+1, <<>>)

\* DAGCircuit.collect_1q_runs
collect_1q_runs(d) ==
    RunsOnWire(d, d.wires[1], 1, <<>>) \o RunsOnWire(d, d.wires[2], 1, <<>>)

\* circuit_to_dag of a list of instructions.
BuildDag(circ) ==
    [nodes |-> [i \in 1..Len(circ) |-> circ[i]],
     wires |-> [q \in Qubits |->
                  SelectSeq([i \in 1..Len(circ) |-> i],
                            LAMBDA i : \E k \in 1..Len(circ[i].qargs) : circ[i].qargs[k] = q)],
     next  |-> Len(circ) + 1]

\* -------------------------------------------------------------------- run
\* IsSingleIdentity asking for more than one parameter.
IsSingleIdentityTwoParams(op) == Len(op.params) > 1 /\ ToMatrix(op) = identity_matrix

\* Lines 82-83: the single operation has parameters and the identity matrix.
IsSingleIdentity(op) == Len(op.params) > 0 /\ ToMatrix(op) = identity_matrix

\* np.isclose(theta, [0, pi/2], atol=1e-12, rtol=0).any(), theta in units of pi/2.
IsCloseTo0OrHalfPi(theta) == theta = 0 \/ theta = 1

\* Lines 86-88: a U3Gate whose first parameter is close to 0 or pi/2.
IsSingleU3(op) == op.name = "u3" /\ IsCloseTo0OrHalfPi(op.params[1])

\* RunOperator composing the run from its last operation backwards.
RECURSIVE RunOperatorReversed(_, _, _)
RunOperatorReversed(d, run, n) ==
    IF n = 1 THEN ToMatrix(d.nodes[run[Len(run)]])
    ELSE Compose(RunOperatorReversed(d, run, n - 1), d.nodes[run[Len(run) - n + 1]])

\* Lines 94-96: the operator of the run, composed in order.
RECURSIVE RunOperator(_, _, _)
RunOperator(d, run, n) ==
    IF n = 1 THEN ToMatrix(d.nodes[run[1]])
    ELSE Compose(RunOperator(d, run, n - 1), d.nodes[run[n]])

\* Lines 97-98: one circuit per decomposer of self.basis, in its order.
NewCircs(bas, operator) ==
    [k \in 1..Len(bas) |-> Decompose(bas[k].basis, operator)]

\* min(new_circs, key=len): the first circuit of the least length.
MinByLen(new_circs) ==
    LET k == CHOOSE i \in 1..Len(new_circs) :
                /\ \A j \in 1..Len(new_circs) : Len(new_circs[i]) <= Len(new_circs[j])
                /\ \A j \in 1..(i-1) : Len(new_circs[j]) > Len(new_circs[i])
    IN  new_circs[k]

\* Accepts with >= for >.
AcceptsNotLonger(run, new_circ, single_u3) ==
    \/ Len(run) >= Len(new_circ)
    \/ (single_u3 /\ new_circ[1].name # "u3")

\* Accepts without the exception for a single u3.
AcceptsShorterOnly(run, new_circ, single_u3) == Len(run) > Len(new_circ)

\* Accepts with the exception for a single u3 whatever the circuit starts with.
AcceptsAnySingleU3(run, new_circ, single_u3) ==
    \/ Len(run) > Len(new_circ)
    \/ single_u3

\* Lines 101-102: the acceptance test.
Accepts(run, new_circ, single_u3) ==
    \/ Len(run) > Len(new_circ)
    \/ (single_u3 /\ new_circ[1].name # "u3")

\* Lines 106-107: remove the nodes of the list from the graph.
RECURSIVE RemoveNodes(_, _)
RemoveNodes(d, ns) ==
    IF ns = <<>> THEN d ELSE RemoveNodes(remove_op_node(d, Head(ns)), Tail(ns))

\* SubstituteRun without the removal of the other nodes of the run.
SubstituteRunLeak(d, run, new_circ) == substitute_node_with_dag(d, run[1], new_circ)

\* Lines 103-107: the circuit takes the place of the run.
SubstituteRun(d, run, new_circ) ==
    RemoveNodes(substitute_node_with_dag(d, run[1], new_circ), Tail(run))

\* Lines 93-107: the circuit chosen for the run.
ChosenCirc(d, run, bas) == MinByLen(NewCircs(bas, RunOperator(d, run, Len(run))))

\* Lines 77-107: the body of the loop over the runs, for one run.
ProcessOne(d, run, bas) ==
    LET op0 == d.nodes[run[1]] IN
    IF Len(run) <= 1 /\ IsSingleIdentity(op0) THEN remove_op_node(d, run[1])
    ELSE IF Len(run) <= 1 /\ ~IsSingleU3(op0) THEN d
    ELSE LET single_u3 == Len(run) <= 1
             new_circs == NewCircs(bas, RunOperator(d, run, Len(run)))
         IN  IF new_circs # <<>> /\ Accepts(run, MinByLen(new_circs), single_u3)
             THEN SubstituteRun(d, run, MinByLen(new_circs))
             ELSE d

EmptyDag == [nodes |-> <<>>, wires |-> <<<<>>, <<>>>>, next |-> 1]

\* __init__ up to the loop (lines 41-45).
Construct ==
    /\ pc = "new"
    /\ IF Truthy(basis_arg)
       THEN /\ basis' = Some(<<>>)
            /\ ei' = 1
            /\ pc' = "ctor_loop"
       ELSE /\ basis' = None
            /\ ei' = ei
            /\ pc' = "ready"
    /\ UNCHANGED <<basis_arg, table, dag, runs, ri, dag_in, prev, calls>>

\* One iteration of the loop of __init__ (lines 46-60).
SelectStep ==
    /\ pc = "ctor_loop"
    /\ ei <= Len(table)
    /\ basis' = Some(SelectOne(table, ToSet(basis_arg.list), table[ei], basis.list))
    /\ ei' = ei + 1
    /\ pc' = IF ei = Len(table) THEN "ready" ELSE "ctor_loop"
    /\ UNCHANGED <<basis_arg, table, dag, runs, ri, dag_in, prev, calls>>

\* Arbitrary tables: MaxBases entries, each a non-empty set of gate names.
Tables ==
    { [i \in 1..MaxBases |-> [name |-> EulerNames[i], gates |-> g[i]]] :
        g \in [1..MaxBases -> (SUBSET SelGates) \ {{}}] }

\* A list holding the names of s, in a fixed order.
RECURSIVE SetToList(_)
SetToList(s) ==
    IF s = {} THEN <<>>
    ELSE LET x == CHOOSE y \in s : TRUE IN <<x>> \o SetToList(s \ {x})

\* Constructor arguments: None, or a list of gate names (possibly empty).
SelArgs == {None} \cup { Some(SetToList(s)) : s \in SUBSET SelGates }

InitSel ==
    /\ pc = "new"
    /\ table \in Tables
    /\ basis_arg \in SelArgs
    /\ ei = 0
    /\ basis = None
    /\ dag = EmptyDag
    /\ runs = <<>>
    /\ ri = 0
    /\ dag_in = EmptyDag
    /\ prev = EmptyDag
    /\ calls = 0

NextSel == Construct \/ SelectStep

\* ------------------------------------------------------------------ inputs
Inst(n, p, q) == [name |-> n, params |-> p, qargs |-> q]

\* The instructions the input circuits are built from: gates on qubit 1
\* (identities with and without parameters, u3 with theta 0, pi/2 and pi,
\* rotations), a rotation on qubit 2 and a two-qubit gate.
Alphabet ==
    { Inst("u3", <<0, 0, 1>>, <<1>>),
      Inst("u3", <<1, 0, 2>>, <<1>>),
      Inst("u3", <<2, 0, 2>>, <<1>>),
      Inst("u1", <<0>>, <<1>>),
      Inst("id", <<>>, <<1>>),
      Inst("rz", <<1>>, <<1>>),
      Inst("ry", <<1>>, <<1>>),
      Inst("rz", <<2>>, <<2>>),
      Inst("cx", <<>>, <<1, 2>>) }

Circuits == UNION { [1..n -> Alphabet] : n \in 1..MaxOps }

\* The basis arguments the pass is constructed with.
BasisArgs ==
    { None,
      Some(<<>>),
      Some(<<"cx">>),
      Some(<<"u3", "cx">>),
      Some(<<"u1", "u2", "u3", "cx">>),
      Some(<<"rz", "ry", "cx">>),
      Some(<<"u3", "rz", "ry", "cx">>),
      Some(<<"rz", "rx", "ry", "cx">>) }

\* Skips testing for None only.
SkipsOnNone(bas) == bas.none

\* Line 71: if not self.basis
Skips(bas) == ~Truthy(bas)

\* run(dag), up to the loop over the runs (lines 71-75). The first call gets an
\* input graph, a later call the graph the call before returned.
Run ==
    /\ pc = "ready"
    /\ calls < MaxCalls
    /\ \E d \in (IF calls = 0 THEN { BuildDag(c) : c \in Circuits } ELSE {dag}) :
         /\ dag' = d
         /\ dag_in' = d
         /\ prev' = d
         /\ IF Skips(basis)
            THEN /\ runs' = <<>>
                 /\ ri' = 0
                 /\ pc' = "ready"
                 /\ calls' = calls + 1
            ELSE /\ runs' = collect_1q_runs(d)
                 /\ ri' = 1
                 /\ pc' = IF collect_1q_runs(d) = <<>> THEN "ready" ELSE "run_loop"
                 /\ calls' = IF collect_1q_runs(d) = <<>> THEN calls + 1 ELSE calls
    /\ UNCHANGED <<basis_arg, table, ei, basis>>

\* One iteration of the loop over the runs (lines 76-107); after the last one
\* run() returns the graph (line 108).
ProcessRun ==
    /\ pc = "run_loop"
    /\ ri <= Len(runs)
    /\ prev' = dag
    /\ dag' = ProcessOne(dag, runs[ri], basis.list)
    /\ ri' = ri + 1
    /\ pc' = IF ri = Len(runs) THEN "ready" ELSE "run_loop"
    /\ calls' = IF ri = Len(runs) THEN calls + 1 ELSE calls
    /\ UNCHANGED <<basis_arg, table, ei, basis, runs, dag_in>>

Init ==
    /\ pc = "new"
    /\ table = ONE_QUBIT_EULER_BASIS_GATES
    /\ basis_arg \in BasisArgs
    /\ ei = 0
    /\ basis = None
    /\ dag = EmptyDag
    /\ runs = <<>>
    /\ ri = 0
    /\ dag_in = EmptyDag
    /\ prev = EmptyDag
    /\ calls = 0

Next == Construct \/ SelectStep \/ Run \/ ProcessRun

Spec == Init /\ [][Next]_vars

SpecSel == InitSel /\ [][NextSel]_vars

\* ------------------------------------------------- properties: selection
\* The table entries whose gate-set is a subset of the target.
Qualifies(k) == table[k].gates \subseteq ToSet(basis_arg.list)

\* Whether the decomposer of table entry k is in self.basis.
InBasis(k) == \E i \in 1..Len(basis.list) : basis.list[i].basis = table[k].name

\* The gate-set of the i-th decomposer of self.basis.
BasisGates(i) == GatesOf(table, basis.list[i].basis)

\* C1: self.basis never holds two distinct decomposers A and B with the
\* gate-set of A's basis a subset of (or equal to) the gate-set of B's basis.
C1_NoSubsetPair ==
    \A i \in 1..Len(basis.list) : \A j \in 1..Len(basis.list) :
        i # j => ~(BasisGates(i) \subseteq BasisGates(j))

\* C1 witness: the constructor is done, two decomposers were kept and a
\* qualifying basis with a strictly smaller gate-set than another was pruned.
C1_Witness ==
    /\ pc = "ready"
    /\ Len(basis.list) >= 2
    /\ \E i \in 1..Len(table) : \E j \in 1..Len(table) :
          /\ Qualifies(i) /\ Qualifies(j)
          /\ table[i].gates \subseteq table[j].gates
          /\ table[i].gates # table[j].gates
          /\ ~InBasis(i)

\* Pairs i < j of qualifying table entries with the same gate-set.
EqualPairs ==
    { p \in (1..Len(table)) \X (1..Len(table)) :
        /\ p[1] < p[2]
        /\ Qualifies(p[1]) /\ Qualifies(p[2])
        /\ table[p[1]].gates = table[p[2]].gates }

\* C7 as stated: of two qualifying bases with the same gate-set the earlier is
\* the one kept: if either is in the constructed list, it is the earlier one.
C7_FirstKept ==
    (pc = "ready" /\ ~basis.none) =>
        \A p \in EqualPairs :
            (InBasis(p[1]) \/ InBasis(p[2])) => (InBasis(p[1]) /\ ~InBasis(p[2]))

\* C7 amended: of two qualifying bases with the same gate-set the earlier is
\* never in the constructed list; the later is in it unless another kept basis
\* has a gate-set that contains its gate-set.
C7_LaterKept ==
    (pc = "ready" /\ ~basis.none) =>
        \A p \in EqualPairs :
            /\ ~InBasis(p[1])
            /\ \/ InBasis(p[2])
               \/ \E i \in 1..Len(basis.list) :
                     /\ basis.list[i].basis # table[p[2]].name
                     /\ table[p[2]].gates \subseteq BasisGates(i)

\* C7 witness: two qualifying bases have the same gate-set and the later one
\* is in the constructed list.
C7_Witness ==
    /\ pc = "ready"
    /\ ~basis.none
    /\ \E p \in EqualPairs : InBasis(p[2])

\* Every qualifying basis examined so far is in self.basis or has its gate-set
\* contained in that of a decomposer of self.basis.
Covered ==
    ~basis.none =>
        \A k \in 1..(ei - 1) :
            (k <= Len(table) /\ Qualifies(k)) =>
                \E i \in 1..Len(basis.list) : table[k].gates \subseteq BasisGates(i)

\* A step of the selection loop that removes a decomposer appends the
\* decomposer of the basis it examines.
RemovalAppends ==
    (pc = "ctor_loop" /\ ei <= Len(table)) =>
        ((\E i \in 1..Len(basis.list) :
              \A j \in 1..Len(basis'.list) : basis'.list[j] # basis.list[i])
         => \E j \in 1..Len(basis'.list) : basis'.list[j].basis = table[ei].name)

\* C10: the selection loses no capability: after every step each qualifying
\* basis examined so far is kept or subsumed by a kept one, and a decomposer
\* is removed only in a step that appends the basis subsuming it.
C10_NoCapabilityLost == []Covered /\ [][RemovalAppends]_vars

\* C10 witness: an examined qualifying basis is no longer in self.basis and
\* the basis examined last, which contains its gate-set, is.
C10_Witness ==
    /\ pc \in {"ctor_loop", "ready"}
    /\ ~basis.none
    /\ ei >= 3
    /\ InBasis(ei - 1)
    /\ \E k \in 1..(ei - 2) :
          /\ Qualifies(k)
          /\ ~InBasis(k)
          /\ table[k].gates \subseteq table[ei - 1].gates
          /\ \A m \in (k + 1)..(ei - 2) : ~(table[k].gates \subseteq table[m].gates)

\* ------------------------------------------------------- properties: run
\* run() has just processed a run: it is runs[ri - 1], prev is the graph
\* before that and dag the graph after it.
Processed == ri >= 2

LastRun == runs[ri - 1]

\* The operations of the processed run, in order.
LastOps == [i \in 1..Len(LastRun) |-> [name |-> prev.nodes[LastRun[i]].name,
                                       params |-> prev.nodes[LastRun[i]].params]]

\* The wire of the processed run and the place of its first node on it.
LastWire == prev.nodes[LastRun[1]].qargs[1]

LastPos == IndexOf(prev.wires[LastWire], LastRun[1])

\* The nodes now between the run's neighbours, and their operations.
InPlace ==
    SubSeq(dag.wires[LastWire], LastPos,
           LastPos + Len(LastRun) - 1 + Len(dag.wires[LastWire]) - Len(prev.wires[LastWire]))

OpsOf(d, ns) == [i \in 1..Len(ns) |-> [name |-> d.nodes[ns[i]].name,
                                       params |-> d.nodes[ns[i]].params]]

\* The in-order composition of a list of operations: the first operation's
\* matrix, then each following one applied after it.
RECURSIVE InOrder(_)
InOrder(ops) ==
    IF ops = <<>> THEN identity_matrix
    ELSE MatMul(ToMatrix(ops[Len(ops)]), InOrder(SubSeq(ops, 1, Len(ops) - 1)))

\* The circuit run() chooses for the processed run.
LastCirc == ChosenCirc(prev, LastRun, basis.list)

\* The single_special flag of the processed run.
LastSpecial == Len(LastRun) = 1 /\ IsSingleU3(prev.nodes[LastRun[1]])

NoneLeft(ns, d) == \A i \in 1..Len(ns) : ns[i] \notin DOMAIN d.nodes

\* C2: whenever run() rewrites a run (substitution or removal of a single
\* identity), the operations left in its place compose, up to global phase,
\* to the in-order composition of the run's operations.
C2_SameUnitary ==
    (Processed /\ dag # prev) =>
        /\ NoneLeft(LastRun, dag)
        /\ EqUpToPhase(InOrder(OpsOf(dag, InPlace)), InOrder(LastOps))

\* C2 witness: a run of two operations that do not commute was replaced by a
\* non-empty circuit.
C2_Witness ==
    /\ Processed /\ dag # prev
    /\ Len(LastRun) = 2
    /\ Len(InPlace) >= 1
    /\ InOrder(LastOps) # InOrder(<<LastOps[2], LastOps[1]>>)

C4_Idempotent ==
    ((calls >= 2 /\ pc = "ready") \/ (calls >= 1 /\ pc = "run_loop")) => dag = dag_in

\* C4 witness: the second call has returned, its graph had runs to process,
\* and the first call had replaced nodes of its input.
C4_Witness ==
    /\ calls = 2 /\ pc = "ready"
    /\ Truthy(basis)
    /\ runs # <<>>
    /\ \E n \in DOMAIN dag.nodes : n > Cardinality(DOMAIN dag.nodes)

\* The single-operation runs of graph d made of an identity with parameters.
SingleIdentities(d) ==
    { r \in ToSet(collect_1q_runs(d)) :
        /\ Len(r) = 1
        /\ Len(d.nodes[r[1]].params) >= 1
        /\ ToMatrix(d.nodes[r[1]]) = identity_matrix }

\* C5 as stated: whatever the configuration, when run() returns no run of its
\* input that is a single identity with parameters is left in the graph.
C5_IdentityRemovedAlways ==
    (calls >= 1 /\ pc = "ready") =>
        \A r \in SingleIdentities(dag_in) : r[1] \notin DOMAIN dag.nodes

\* C5 amended: when self.basis holds at least one decomposer, no run of the
\* input that is a single identity with parameters is left in the graph when
\* run() returns.
C5_IdentityRemoved ==
    (calls >= 1 /\ pc = "ready" /\ Truthy(basis)) =>
        \A r \in SingleIdentities(dag_in) : r[1] \notin DOMAIN dag.nodes

\* C5 witness: run() has returned with a decomposer configured and its input
\* held a run that is a single identity with parameters.
C5_Witness ==
    /\ calls = 1 /\ pc = "ready" /\ Truthy(basis)
    /\ SingleIdentities(dag_in) # {}

\* The processed run is a single u3 with first parameter 0 and not the identity.
LastIsU3Theta0 ==
    /\ Processed
    /\ Len(LastRun) = 1
    /\ prev.nodes[LastRun[1]].name = "u3"
    /\ prev.nodes[LastRun[1]].params[1] = 0
    /\ ToMatrix(prev.nodes[LastRun[1]]) # identity_matrix

NoU3(ops) == \A i \in 1..Len(ops) : ops[i].name # "u3"

\* C6 as stated: if some decomposer of self.basis returns a circuit that does
\* not start with u3, the single u3 with first parameter 0 is replaced and what
\* replaces it has no u3.
C6_AnyDecomposer ==
    (LastIsU3Theta0 /\ \E k \in 1..Len(basis.list) :
         LET c == Decompose(basis.list[k].basis, ToMatrix(prev.nodes[LastRun[1]]))
         IN  c # <<>> /\ c[1].name # "u3")
    => (NoneLeft(LastRun, dag) /\ NoU3(OpsOf(dag, InPlace)))

\* C6 amended: if the chosen circuit (the first of the least length, in the
\* order of self.basis) does not start with u3, the single u3 with first
\* parameter 0 is replaced by that circuit.
C6_ChosenDecomposer ==
    (LastIsU3Theta0 /\ LastCirc # <<>> /\ LastCirc[1].name # "u3")
    => (NoneLeft(LastRun, dag) /\ OpsOf(dag, InPlace) = LastCirc
        /\ OpsOf(dag, InPlace)[1].name # "u3")

\* C6 witness: a single u3 with first parameter 0 was replaced by a circuit of
\* one operation that is not u3.
C6_Witness ==
    /\ LastIsU3Theta0
    /\ LastCirc # <<>> /\ LastCirc[1].name # "u3"
    /\ Len(InPlace) = 1
    /\ dag # prev

\* C8: with no decomposer selected (basis None, empty, or no Euler basis within
\* it) run() goes through no run and returns the graph it was given.
C8_NoBasisNoChange ==
    ~Truthy(basis) =>
        /\ pc # "run_loop"
        /\ (calls >= 1 => dag = dag_in)

\* C8 witness: a basis was given, no Euler basis lies within it, and run() has
\* returned a graph that holds an identity with parameters.
C8_Witness ==
    /\ calls >= 1 /\ pc = "ready"
    /\ ~basis.none /\ basis.list = <<>>
    /\ SingleIdentities(dag) # {}

\* C9: when a circuit is substituted for a run, its operations stand in order
\* where the run was, on new nodes; no node of the run is left; every other
\* node is still there with the same operation, and the nodes before and after
\* the run on its wire, and the other wires, are as they were.
C9_Frame ==
    (Processed /\ dag # prev) =>
        LET w  == prev.wires[LastWire]
            w2 == dag.wires[LastWire]
        IN  /\ OpsOf(dag, InPlace) = LastCirc
            /\ \A i \in 1..Len(InPlace) : InPlace[i] \notin DOMAIN prev.nodes
            /\ NoneLeft(LastRun, dag)
            /\ w2 = SubSeq(w, 1, LastPos - 1) \o InPlace
                      \o SubSeq(w, LastPos + Len(LastRun), Len(w))
            /\ \A q \in Qubits \ {LastWire} : dag.wires[q] = prev.wires[q]
            /\ DOMAIN dag.nodes =
                  ((DOMAIN prev.nodes) \ ToSet(LastRun)) \cup ToSet(InPlace)
            /\ \A n \in (DOMAIN prev.nodes) \ ToSet(LastRun) : dag.nodes[n] = prev.nodes[n]

\* C9 witness: a run standing between two other nodes of its wire was replaced
\* by a circuit of two operations, and the other wire holds nodes too.
C9_Witness ==
    /\ Processed /\ dag # prev
    /\ Len(InPlace) = 2
    /\ LastPos > 1
    /\ LastPos + Len(LastRun) - 1 < Len(prev.wires[LastWire])
    /\ \E q \in Qubits \ {LastWire} : prev.wires[q] # <<>>

====
